---- MODULE Spec2Model ----
(***************************************************************************)
(* Model of the launcher in main.py: MainWindow (file selection, optional  *)
(* quantization through the external llama-quantize tool, lazy model load) *)
(* and ChatWindow (message exchange with the loaded model).                *)
(*                                                                         *)
(* Strings are modelled as sequences of tokens (chunks of characters), so  *)
(* that pathlib's stem, the ".Q" substring test, the f-string that builds  *)
(* the destination name and str.strip() are computed as the code computes  *)
(* them.  A "." token is one dot, the " " and "\n" tokens are whitespace.  *)
(***************************************************************************)
EXTENDS Integers, Sequences, FiniteSets, TLC

VARIABLES
    fs,                \* the weights files that exist on disk
    quant_bin_exists,  \* whether the converter executable is installed
    model_path,        \* MainWindow.model_path (None: attribute not set)
    quantized,         \* MainWindow.quantized
    llama,             \* MainWindow._llama (None: no session)
    chat_window,       \* MainWindow.chat_window with its _llama and display
    loadLog,           \* the calls of _load_model made so far, in order
    flow,              \* the last run of _choose_and_load past the file dialog
    crashed            \* an exception left a slot (PyQt6 aborts the process)

vars == <<fs, quant_bin_exists, model_path, quantized, llama, chat_window,
          loadLog, flow, crashed>>

\* ---------------------------------------------------------------- bounds
MaxLoads == 2
MaxTranscript == 4

\* ------------------------------------------------------- values and text
None == [tag |-> "None"]

Whitespace == {" ", "\n"}

RECURSIVE LStrip(_)
LStrip(s) ==
    IF s # <<>> /\ Head(s) \in Whitespace THEN LStrip(Tail(s)) ELSE s

RECURSIVE RStrip(_)
RStrip(s) ==
    IF s # <<>> /\ s[Len(s)] \in Whitespace
    THEN RStrip(SubSeq(s, 1, Len(s) - 1))
    ELSE s

StripLeftOnly(s) == LStrip(s)

Strip(s) == RStrip(LStrip(s))

\* index of the last "." token of a name, 0 when there is none (str.rfind)
RFindDot(name) ==
    LET dots == {i \in 1..Len(name) : name[i] = "."}
    IN  IF dots = {} THEN 0 ELSE CHOOSE i \in dots : \A j \in dots : j <= i

\* pathlib.PurePath.stem: the name without its last suffix; a leading dot or
\* a trailing dot does not start a suffix
Stem(name) ==
    LET i == RFindDot(name)
    IN  IF 1 < i /\ i < Len(name) THEN SubSeq(name, 1, i - 1) ELSE name

\* the test  ".Q" in s
ContainsDotQ(s) ==
    \E i \in 1..(Len(s) - 1) : s[i] = "." /\ s[i + 1] = "Q"

\* src.with_name(n)
WithName(p, n) == [parent |-> p.parent, name |-> n]

\* str(path)
Str(p) == <<p.parent, "/">> \o p.name

\* qtype.split()[0]: the first whitespace-delimited word of a dialog item
RECURSIVE UpToWhitespace(_)
UpToWhitespace(s) ==
    IF s = <<>> \/ Head(s) \in Whitespace
    THEN <<>>
    ELSE <<Head(s)>> \o UpToWhitespace(Tail(s))

FirstWord(s) == UpToWhitespace(LStrip(s))

\* ------------------------------------------------------ program constants
\* the three items offered by QInputDialog.getItem
Items == { <<"Q", "4_K_M", " ", "(balance)">>,
           <<"Q", "3_K_S", " ", "(smaller)">>,
           <<"Q", "2_K", " ", "(max)">> }

\* the converter executable next to the application
QuantBin == [parent |-> "app/llama_app", name |-> <<"llama-quantize">>]

\* -------------------------------------------------------- the environment
Dir == "models"

\* names of the weights files the user may find on disk
SourceNames == { <<"m", ".", "gguf">>,
                 <<"m", ".", "Q", "4_K_M", ".", "gguf">>,
                 <<"m", ".", "Q", "4_K_M">> }

SourcePaths == { [parent |-> Dir, name |-> n] : n \in SourceNames }

\* the disk when the application starts: the unquantized source and the
\* extensionless file are there, the quantized .gguf may be
InitialDisks ==
    { SourcePaths,
      SourcePaths \ {[parent |-> Dir,
                      name |-> <<"m", ".", "Q", "4_K_M", ".", "gguf">>]} }

\* what the external converter does when it is run: exit code, standard
\* error, and whether it wrote the destination file
Converters ==
    { [rc |-> 0, stderr |-> <<>>, writes |-> TRUE],
      [rc |-> 0, stderr |-> <<>>, writes |-> FALSE],
      [rc |-> 1, stderr |-> <<"bad", " ", "format">>, writes |-> FALSE],
      [rc |-> 1, stderr |-> <<"bad", " ", "format", "\n">>, writes |-> FALSE] }

\* --------------------------------------------------------- _quantize_model
DstPath(src, qtype) ==
    WithName(src, Stem(src.name) \o <<".">> \o qtype \o <<".", "gguf">>)

\* source and destination exchanged on the command line
CmdSwapped(src, dst, qtype) == <<Str(QuantBin), Str(dst), Str(src), qtype>>

Cmd(src, dst, qtype) == <<Str(QuantBin), Str(src), Str(dst), qtype>>

Raised(site, text, cmds, probes, files) ==
    [kind |-> "raise", value |-> None, exc |-> [site |-> site, text |-> text],
     cmds |-> cmds, probes |-> probes, files |-> files]

Returned(p, cmds, probes, files) ==
    [kind |-> "return", value |-> p, exc |-> None,
     cmds |-> cmds, probes |-> probes, files |-> files]

\* the converter is looked up before the destination is tested
QuantizeModelToolFirst(src, qtype, files, binExists, conv) ==
    LET dst   == DstPath(src, qtype)
        after == IF conv.writes THEN files \cup {dst} ELSE files
    IN  IF ContainsDotQ(Stem(src.name))
        THEN Raised("already_quantized", <<"already", " ", "quantized">>,
                    <<>>, <<>>, files)
        ELSE IF ~binExists
        THEN Raised("tool_not_found", <<"quantize", " ", "not", " ", "found">>,
                    <<>>, <<QuantBin>>, files)
        ELSE IF dst \in files
        THEN Returned(dst, <<>>, <<QuantBin, dst>>, files)
        ELSE IF conv.rc # 0
        THEN Raised("conversion", Strip(conv.stderr),
                    <<Cmd(src, dst, qtype)>>, <<QuantBin, dst, dst>>, after)
        ELSE Returned(dst, <<Cmd(src, dst, qtype)>>,
                      <<QuantBin, dst, dst>>, after)

QuantizeModel(src, qtype, files, binExists, conv) ==
    LET dst   == DstPath(src, qtype)
        after == IF conv.writes THEN files \cup {dst} ELSE files
    IN  IF ContainsDotQ(Stem(src.name))
        THEN Raised("already_quantized", <<"already", " ", "quantized">>,
                    <<>>, <<>>, files)
        ELSE IF dst \in files
        THEN Returned(dst, <<>>, <<dst>>, files)
        ELSE IF ~binExists
        THEN Raised("tool_not_found", <<"quantize", " ", "not", " ", "found">>,
                    <<>>, <<dst, dst, QuantBin>>, files)
        ELSE IF conv.rc # 0
        THEN Raised("conversion", Strip(conv.stderr),
                    <<Cmd(src, dst, qtype)>>, <<dst, dst, QuantBin>>, after)
        ELSE Returned(dst, <<Cmd(src, dst, qtype)>>,
                      <<dst, dst, QuantBin>>, after)

\* the converter behaviours that matter to a call of _quantize_model: one is
\* enough when the call ends before subprocess.run
ConverterChoices(src, qtype, files, binExists) ==
    IF \A c \in Converters :
          QuantizeModel(src, qtype, files, binExists, c).cmds = <<>>
    THEN {CHOOSE c \in Converters : TRUE}
    ELSE Converters

\* ------------------------------------------------------------ _load_model
\* what Llama(model_path=...) does when it is called
CtorOutcomes == {"ok", "raise"}

\* the outcomes of Llama(...) that matter to a call of _load_model: one is
\* enough when the call returns the cached handle or has no path
CtorChoices(cur, mp) ==
    IF cur # None \/ mp = None THEN {"ok"} ELSE CtorOutcomes

\* no reuse of the existing instance: every call constructs
LoadModelNoCache(cur, mp, ctor, id, files) ==
    IF mp = None
    THEN [kind |-> "raise", value |-> None,
          exc |-> [site |-> "no_model", text |-> <<"select", " ", "model">>],
          constructed |-> FALSE, llama |-> cur]
    ELSE IF ctor = "ok" /\ mp \in files
    THEN LET h == [tag |-> "Llama", id |-> id, path |-> mp]
         IN  [kind |-> "return", value |-> h, exc |-> None,
              constructed |-> TRUE, llama |-> h]
    ELSE [kind |-> "raise", value |-> None,
          exc |-> [site |-> "load", text |-> <<"load", " ", "failed">>],
          constructed |-> TRUE, llama |-> cur]

\* the existing instance is reused only for the path it was built from
LoadModelReloadOnNewPath(cur, mp, ctor, id, files) ==
    IF cur # None /\ cur.path = mp
    THEN [kind |-> "return", value |-> cur, exc |-> None,
          constructed |-> FALSE, llama |-> cur]
    ELSE LoadModelNoCache(cur, mp, ctor, id, files)

LoadModel(cur, mp, ctor, id, files) ==
    IF cur # None
    THEN [kind |-> "return", value |-> cur, exc |-> None,
          constructed |-> FALSE, llama |-> cur]
    ELSE IF mp = None
    THEN [kind |-> "raise", value |-> None,
          exc |-> [site |-> "no_model", text |-> <<"select", " ", "model">>],
          constructed |-> FALSE, llama |-> cur]
    ELSE IF ctor = "ok" /\ mp \in files
    THEN LET h == [tag |-> "Llama", id |-> id, path |-> mp]
         IN  [kind |-> "return", value |-> h, exc |-> None,
              constructed |-> TRUE, llama |-> h]
    ELSE [kind |-> "raise", value |-> None,
          exc |-> [site |-> "load", text |-> <<"load", " ", "failed">>],
          constructed |-> TRUE, llama |-> cur]

\* the record kept of one call of _load_model
LoadCall(mp, L) ==
    [tag |-> "Load", path |-> mp, constructed |-> L.constructed,
     kind |-> L.kind, value |-> L.value]

\* ------------------------------------------------- the except clauses
\* "except Exception" around _quantize_model, _load_model and the body of
\* _on_send: TRUE when the raised exception is caught by the handler
ExceptQuantize(exc) == exc # None

\* a clause that catches one kind of error only
ExceptLoadNarrow(exc) == exc # None /\ exc.site = "no_model"

ExceptLoad(exc) == exc # None

\* a clause that catches the errors of the loader only
ExceptSendLoadOnly(exc) == exc # None /\ exc.site \in {"no_model", "load"}

ExceptSend(exc) == exc # None

\* ------------------------------------------------------------------- Init
Init ==
    /\ fs \in InitialDisks
    /\ quant_bin_exists \in BOOLEAN
    /\ model_path = None
    /\ quantized = "unset"
    /\ llama = None
    /\ chat_window = None
    /\ loadLog = <<>>
    /\ flow = None
    /\ crashed = FALSE

\* -------------------------------------------------------- _choose_and_load
Dialog(kind, text) == [kind |-> kind, text |-> text]

\* the record of the last flow: what was selected and answered, the call of
\* _quantize_model it made (if any), what the converter did if it was run,
\* whether _load_model was called, and the message box the flow ended with
FlowRecord(src, reply, qtype, conv, r, loaded, dialog, ended) ==
    [tag |-> "Flow", src |-> src, reply |-> reply, qtype |-> qtype,
     fs_before |-> fs,
     conv |-> IF r # None /\ r.cmds # <<>> THEN conv ELSE None,
     r |-> r, loaded |-> loaded, dialog |-> dialog, ended |-> ended]

\* lines 280-284: load the current path and report
LoadAndReport(src, reply, qtype, conv, r, mp, files, ctor) ==
    LET L == LoadModel(llama, mp, ctor, Len(loadLog) + 1, files)
    IN  /\ model_path' = mp
        /\ fs' = files
        /\ llama' = L.llama
        /\ loadLog' = Append(loadLog, LoadCall(mp, L))
        /\ IF L.kind = "return"
           THEN /\ flow' = FlowRecord(src, reply, qtype, conv, r, TRUE,
                                      Dialog("information", <<"loaded">>),
                                      "loaded")
                /\ crashed' = crashed
           ELSE IF ExceptLoad(L.exc)
           THEN /\ flow' = FlowRecord(src, reply, qtype, conv, r, TRUE,
                                      Dialog("critical", L.exc.text),
                                      "load_failed")
                /\ crashed' = crashed
           ELSE /\ flow' = FlowRecord(src, reply, qtype, conv, r, TRUE,
                                      None, "escaped")
                /\ crashed' = TRUE

\* lines 263-279: the level dialog and the call of _quantize_model
QuantizeBranch(file, ok, item, conv) ==
    LET qtype == FirstWord(item)
        r     == QuantizeModel(file, qtype, fs, quant_bin_exists, conv)
    IN  IF ~ok
        THEN /\ model_path' = file
             /\ flow' = FlowRecord(file, "Yes", <<>>, None, None, FALSE, None,
                                   "level_cancelled")
             /\ UNCHANGED <<fs, llama, loadLog, crashed>>
        ELSE IF r.kind = "raise"
        THEN /\ model_path' = file
             /\ fs' = r.files
             /\ UNCHANGED <<llama, loadLog>>
             /\ IF ExceptQuantize(r.exc)
                THEN /\ flow' = FlowRecord(file, "Yes", qtype, conv, r, FALSE,
                                           Dialog("critical", r.exc.text),
                                           "quantize_failed")
                     /\ crashed' = crashed
                ELSE /\ flow' = FlowRecord(file, "Yes", qtype, conv, r, FALSE,
                                           None, "escaped")
                     /\ crashed' = TRUE
        ELSE \E ctor \in CtorChoices(llama, r.value) :
                LoadAndReport(file, "Yes", qtype, conv, r, r.value,
                              r.files, ctor)

ChooseAndLoad ==
    /\ ~crashed
    /\ Len(loadLog) < MaxLoads
    /\ \E file \in fs \cup {None} :
          IF file = None
          THEN UNCHANGED vars
          ELSE \E reply \in {"Yes", "No"} :
                 /\ quantized' = reply
                 /\ UNCHANGED <<quant_bin_exists, chat_window>>
                 /\ IF reply = "No"
                    THEN \E ctor \in CtorChoices(llama, file) :
                            LoadAndReport(file, reply, <<>>, None, None,
                                          file, fs, ctor)
                    ELSE \/ QuantizeBranch(file, FALSE,
                                           CHOOSE i \in Items : TRUE,
                                           CHOOSE c \in Converters : TRUE)
                         \/ \E item \in Items :
                              \E conv \in ConverterChoices(file,
                                          FirstWord(item), fs,
                                          quant_bin_exists) :
                                 QuantizeBranch(file, TRUE, item, conv)

\* -------------------------------------------------------------- _open_chat
OpenChat ==
    /\ ~crashed
    /\ chat_window' = [tag |-> "Chat", llama |-> None, display |-> <<>>,
                       engine |-> "not_called"]
    /\ UNCHANGED <<fs, quant_bin_exists, model_path, quantized, llama,
                   loadLog, flow, crashed>>

\* ---------------------------------------------------------------- _on_send
\* what the user typed into the input line
UserTexts == { <<>>, <<" ">>, <<" ", "hi", " ">> }

\* what calling the loaded model does: a completion, an exception raised by
\* the engine, or a result without any choice (IndexError on [0])
GenOutcomes ==
    { [kind |-> "ok", text |-> <<" ", "hello", "\n">>],
      [kind |-> "raise", text |-> <<"engine", " ", "error">>],
      [kind |-> "no_choices", text |-> <<"list", " ", "index">>] }

UserLine(t) == [who |-> "user", kind |-> "text", text |-> t]

LLMLine(kind, t) == [who |-> "llm", kind |-> kind, text |-> t]

\* chat_window.engine records what the model did in the last send
OnSendStep(text, ctor, gen) ==
    LET user_text == Strip(text)
        needLoad  == chat_window.llama = None
        L   == LoadModel(llama, model_path, ctor, Len(loadLog) + 1, fs)
        h   == IF needLoad THEN L.value ELSE chat_window.llama
        called == ~(needLoad /\ L.kind = "raise")
        exc == IF ~called THEN L.exc
               ELSE IF gen.kind # "ok"
               THEN [site |-> gen.kind, text |-> gen.text]
               ELSE None
        shown == Append(chat_window.display, UserLine(user_text))
        win(d) == [chat_window EXCEPT !.llama = h, !.display = d,
                      !.engine = IF called THEN gen.kind ELSE "not_called"]
    IN
    IF user_text = <<>>
    THEN UNCHANGED vars
    ELSE
      /\ Len(chat_window.display) + 2 <= MaxTranscript
      /\ needLoad => Len(loadLog) < MaxLoads
      /\ llama' = IF needLoad THEN L.llama ELSE llama
      /\ loadLog' = IF needLoad
                    THEN Append(loadLog, LoadCall(model_path, L))
                    ELSE loadLog
      /\ UNCHANGED <<fs, quant_bin_exists, model_path, quantized, flow>>
      /\ IF exc = None
         THEN /\ chat_window' =
                    win(Append(shown, LLMLine("text", Strip(gen.text))))
              /\ crashed' = crashed
         ELSE IF ExceptSend(exc)
         THEN /\ chat_window' = win(Append(shown, LLMLine("error", exc.text)))
              /\ crashed' = crashed
         ELSE /\ chat_window' = win(shown)
              /\ crashed' = TRUE

OnSend ==
    /\ ~crashed
    /\ chat_window # None
    /\ \E text \in UserTexts, gen \in GenOutcomes :
          \E ctor \in CtorChoices(llama, model_path) :
             OnSendStep(text, ctor, gen)

Next == ChooseAndLoad \/ OpenChat \/ OnSend

Spec == Init /\ [][Next]_vars

\* ================================================================ claims
Resolved == flow # None /\ flow.r # None

FlowDst == DstPath(flow.src, flow.qtype)

\* C1: a call of _quantize_model whose destination already exists (source name
\* without the marker) returns the destination and runs no process, whether
\* or not the converter executable is present.
C1_Case ==
    /\ Resolved
    /\ ~ContainsDotQ(flow.src.name)
    /\ FlowDst \in flow.fs_before

C1_CacheHitSkipsConverter ==
    C1_Case =>
        /\ flow.r.kind = "return"
        /\ flow.r.value = FlowDst
        /\ Len(flow.r.cmds) = 0
        /\ \A b \in BOOLEAN : \A c \in Converters :
              LET q == QuantizeModel(flow.src, flow.qtype, flow.fs_before, b, c)
              IN  q.kind = "return" /\ q.value = FlowDst /\ q.cmds = <<>>

C1_Witness == C1_Case /\ ~quant_bin_exists /\ flow.ended = "loaded"

\* C2: a call of _quantize_model on a source whose name contains the marker
\* ".Q" raises the already-quantized error without any existence test, any
\* process and any change of the disk.
C2_MarkedSourceFailsFast ==
    (Resolved /\ ContainsDotQ(flow.src.name)) =>
        /\ flow.r.kind = "raise"
        /\ flow.r.exc.site = "already_quantized"
        /\ flow.r.probes = <<>>
        /\ flow.r.cmds = <<>>
        /\ flow.r.files = flow.fs_before

\* C3: with no cached destination and a converter that is present and exits 0,
\* _quantize_model runs the converter exactly once with the arguments
\* (source, destination, level) and returns the destination.
\* flow.conv is what the converter did when it was run and None when the call
\* ended before running it: "exits 0" excludes only an observed non-zero exit.
C3_Case ==
    /\ Resolved
    /\ FlowDst \notin flow.fs_before
    /\ quant_bin_exists
    /\ (flow.conv = None \/ flow.conv.rc = 0)

C3_Outcome ==
    /\ Len(flow.r.cmds) = 1
    /\ Len(flow.r.cmds[1]) = 4
    /\ SubSeq(flow.r.cmds[1], 2, 4) =
          <<Str(flow.src), Str(FlowDst), flow.qtype>>
    /\ flow.r.kind = "return"
    /\ flow.r.value = FlowDst

\* C3 as stated: for every source
C3_ConverterRunOnce == C3_Case => C3_Outcome

\* C3 as amended: for every source whose stem carries no marker
C3_ConverterRunOnceUnmarked ==
    (C3_Case /\ ~ContainsDotQ(Stem(flow.src.name))) => C3_Outcome

C3_Witness ==
    /\ C3_Case
    /\ ~ContainsDotQ(Stem(flow.src.name))
    /\ flow.r.kind = "return"
    /\ Len(flow.r.cmds) = 1

\* t is s without its leading and trailing whitespace
IsTrimOf(t, s) ==
    \E i \in 0..Len(s) :
        /\ i + Len(t) <= Len(s)
        /\ SubSeq(s, i + 1, i + Len(t)) = t
        /\ \A k \in 1..i : s[k] \in Whitespace
        /\ \A k \in (i + Len(t) + 1)..Len(s) : s[k] \in Whitespace
        /\ t # <<>> => (t[1] \notin Whitespace /\ t[Len(t)] \notin Whitespace)

C4_Case == Resolved /\ flow.conv # None /\ flow.conv.rc # 0

C4_Fails ==
    /\ flow.r.kind = "raise"
    /\ flow.r.exc.site = "conversion"
    /\ flow.r.value = None
    /\ ~flow.loaded
    /\ flow.ended = "quantize_failed"

\* C4 as stated: a converter that exits non-zero makes _quantize_model raise
\* an error carrying exactly the standard-error text; no path is returned and
\* the flow loads no model.
C4_ErrorCarriesExactStderr ==
    C4_Case => (C4_Fails /\ flow.r.exc.text = flow.conv.stderr)

\* C4 as amended: the error carries the standard-error text without its
\* leading and trailing whitespace, and that text is what the dialog shows.
C4_ErrorCarriesTrimmedStderr ==
    C4_Case =>
        /\ C4_Fails
        /\ IsTrimOf(flow.r.exc.text, flow.conv.stderr)
        /\ flow.dialog = Dialog("critical", flow.r.exc.text)

C4_Witness ==
    /\ C4_Case
    /\ flow.conv.stderr # <<>>
    /\ flow.conv.stderr[Len(flow.conv.stderr)] = "\n"
    /\ flow.ended = "quantize_failed"

Constructions(i, j) ==
    Cardinality({k \in i..j : loadLog[k].constructed})

\* C5 as stated: two consecutive calls of _load_model with the same path
\* invoke Llama(...) exactly once.
C5_TwoCallsOneConstruction ==
    \A i \in 1..(Len(loadLog) - 1) :
        (loadLog[i].path # None /\ loadLog[i].path = loadLog[i + 1].path)
            => Constructions(i, i + 1) = 1

\* C5 as amended: once a call has returned a handle, every later call returns
\* that handle without calling Llama(...), and the first call that returns is
\* the one that constructed; so two calls of which the first is the first to
\* return invoke the construction exactly once.
C5_NoConstructionAfterReturn ==
    /\ \A i \in 1..Len(loadLog) : \A j \in 1..Len(loadLog) :
          (i < j /\ loadLog[i].kind = "return") =>
              /\ ~loadLog[j].constructed
              /\ loadLog[j].kind = "return"
              /\ loadLog[j].value = loadLog[i].value
              /\ (\A k \in 1..(i - 1) : loadLog[k].kind = "raise")
                    => Constructions(i, j) = 1
    /\ \A i \in 1..Len(loadLog) :
          (loadLog[i].kind = "return"
             /\ \A k \in 1..(i - 1) : loadLog[k].kind = "raise")
              => loadLog[i].constructed

C5_Witness ==
    /\ Len(loadLog) >= 2
    /\ loadLog[1].kind = "return"
    /\ loadLog[1].path = loadLog[2].path
    /\ loadLog[2].kind = "return"

\* C6: a session handle, once created, is never replaced or dropped; every
\* call of _load_model that returned, returned the handle that is live now
\* (whatever file is selected), and the chat window's handle is empty or that
\* same handle.
C6_State ==
    /\ chat_window # None => chat_window.llama \in {None, llama}
    /\ \A i \in 1..Len(loadLog) :
          loadLog[i].kind = "return" => loadLog[i].value = llama

C6_OneSession ==
    [](C6_State) /\ [][llama # None => llama' = llama]_vars

C6_Witness ==
    /\ llama # None
    /\ model_path # llama.path
    /\ Len(loadLog) = 2
    /\ loadLog[2].path # llama.path
    /\ loadLog[2].value = llama
    /\ chat_window # None
    /\ chat_window.llama = llama

\* C7: when the engine raises in a send, the transcript ends with an error
\* line carrying the exception text, no exception leaves the handler, and the
\* loaded handle is kept by the chat window and the launcher.
C7_Case ==
    /\ chat_window # None
    /\ chat_window.engine \in {"raise", "no_choices"}

C7_EngineErrorRendered ==
    C7_Case =>
        LET d == chat_window.display
        IN  /\ ~crashed
            /\ Len(d) >= 2
            /\ d[Len(d) - 1].who = "user"
            /\ d[Len(d)].who = "llm"
            /\ d[Len(d)].kind = "error"
            /\ \E g \in GenOutcomes :
                  g.kind = chat_window.engine /\ d[Len(d)].text = g.text
            /\ llama # None
            /\ chat_window.llama = llama

\* an engine error followed, in the same window, by a completion
C7_Witness ==
    /\ chat_window # None
    /\ Len(chat_window.display) = 4
    /\ chat_window.display[2] = LLMLine("error", <<"engine", " ", "error">>)
    /\ chat_window.display[4].kind = "text"
    /\ chat_window.engine = "ok"

\* C8: no exception ever leaves a handler: after every flow and every send,
\* failed or not, the process is alive and the launcher's handlers can run.
C8_NoFatalFailure ==
    /\ ~crashed
    /\ flow # None => flow.ended # "escaped"
    /\ ENABLED OpenChat

C8_Witness ==
    /\ ~crashed
    /\ flow # None
    /\ flow.ended = "load_failed"
    /\ chat_window # None
    /\ Len(chat_window.display) = 2
    /\ chat_window.display[2].kind = "error"

\* C9: when a flow ends with the "loaded" message, the live session was
\* constructed from the path that is current (model_path).
C9_LoadedFromCurrentPath ==
    (flow # None /\ flow.ended = "loaded") =>
        (llama # None /\ llama.path = model_path)

\* C10: a flow aborted after the answer Yes (level dialog cancelled, or
\* _quantize_model raised) leaves model_path as it was, and no session is
\* constructed afterwards from the source of that flow.
AbortedEnds == {"level_cancelled", "quantize_failed"}

C10_AbortKeepsPath ==
    [][ /\ (flow' # flow /\ flow'.ended \in AbortedEnds)
            => model_path' = model_path
        /\ (flow # None /\ flow' = flow /\ flow.ended \in AbortedEnds
              /\ llama = None /\ llama' # None)
            => llama'.path # flow.src ]_vars

====
